---------------------------- MODULE Spec2Model ----------------------------
(***************************************************************************)
(* A model of the template-matching OCR of package lookup: the template    *)
(* pool of type OCR (ocr.go), the candidate comparators of                 *)
(* fontSymbolLookup and the resolver / arranger OCR.filterAndArrange.      *)
(*                                                                         *)
(* Pointers are modelled by identifiers: a *FontSymbol is an index into    *)
(* the table FontSymbols, a *fontSymbolLookup is a record whose field id   *)
(* tells two equal-valued candidates apart.  Qualities (float64 in [0,1])  *)
(* are modelled by integer levels: the code only tests them with >= and    *)
(* with the sign of a difference.                                          *)
(***************************************************************************)
EXTENDS Integers, Sequences, FiniteSets, TLC

VARIABLES
    fontFamilies,   \* OCR.fontFamilies: family name -> sequence of *FontSymbol
    allSymbols,     \* OCR.allSymbols: flat sequence of *FontSymbol
    threshold,      \* OCR.threshold
    numThreads,     \* OCR.numThreads
    found,          \* the candidate list the scan returned / handed to filterAndArrange
    all,            \* filterAndArrange's local slice `all` when it returns
    str,            \* the pieces written to the strings.Builder, in order
    text,           \* the returned text
    err,            \* the returned error ("nil" or the scanner's failure)
    status,         \* how the last Recognize / filterAndArrange call ended: "returned" or
                    \* "panic"; "idle" when the last call was none of these
    rel             \* the pairs <<i, j>> on which found[i].comesAfter(found[j]) answered true

vars == <<fontFamilies, allSymbols, threshold, numThreads, found, all,
          str, text, err, status, rel>>

-----------------------------------------------------------------------------
(* Bounds of the model *)

MaxPool == 2        \* longest allSymbols
MaxArgs == 2        \* most symbols passed to one AddFontFamily / AddSymbols call
MaxResolve == 3     \* longest candidate list of the resolver specification
MaxArrange == 3     \* longest candidate list of the arranger specification
MaxWorkers == 2     \* largest worker count
MaxOrder == 3       \* longest candidate list of the comparator specification

-----------------------------------------------------------------------------
(* Templates (FontSymbol) and candidates (fontSymbolLookup) *)

\* The templates a caller may register.  size is image.size (ink size).  A row
\* stands for every template with these attributes: the resolver and the
\* arranger read nothing else of a template.
FontSymbols ==
    <<  [symbol |-> "A", width |-> 5, height |-> 10, size |-> 6,  advance |-> 10],
        [symbol |-> "B", width |-> 5, height |-> 10, size |-> 6,  advance |-> 10],
        [symbol |-> "C", width |-> 5, height |-> 10, size |-> 6,  advance |-> 10],
        [symbol |-> "A", width |-> 5, height |-> 10, size |-> 10, advance |-> 10],
        [symbol |-> "A", width |-> 5, height |-> 10, size |-> 4,  advance |-> 10],
        [symbol |-> "D", width |-> 5, height |-> 30, size |-> 8,  advance |-> 10]  >>

Advance(fs) == FontSymbols[fs].advance

\* The nil *fontSymbolLookup
NIL == [nil |-> TRUE]

newFontSymbolLookup(id, fs, x, y, g) ==
    [id |-> id, fs |-> fs, x |-> x, y |-> y, g |-> g, size |-> FontSymbols[fs].size]

abs(n) == IF n < 0 THEN -n ELSE n

max(a, b) == IF a > b THEN a ELSE b

\* image.Rect(x0, y0, x1, y1): the corners put in order
Rect(x0, y0, x1, y1) ==
    [minX |-> IF x0 > x1 THEN x1 ELSE x0, minY |-> IF y0 > y1 THEN y1 ELSE y0,
     maxX |-> IF x0 > x1 THEN x0 ELSE x1, maxY |-> IF y0 > y1 THEN y0 ELSE y1]

ZR == [minX |-> 0, minY |-> 0, maxX |-> 0, maxY |-> 0]

\* image.Rectangle.Intersect: the common part, or the zero rectangle when it is empty
Intersect(r, s) ==
    LET t == [minX |-> max(r.minX, s.minX), minY |-> max(r.minY, s.minY),
              maxX |-> IF r.maxX < s.maxX THEN r.maxX ELSE s.maxX,
              maxY |-> IF r.maxY < s.maxY THEN r.maxY ELSE s.maxY]
    IN  IF t.minX >= t.maxX \/ t.minY >= t.maxY THEN ZR ELSE t

cross(l, f) ==
    LET r  == Rect(l.x, l.y, l.x + FontSymbols[l.fs].width, l.y + FontSymbols[l.fs].height)
        r2 == Rect(f.x, f.y, f.x + FontSymbols[f.fs].width, f.y + FontSymbols[f.fs].height)
    IN  Intersect(r, r2) # ZR

yCross(l, f) ==
    LET ly2 == l.y + FontSymbols[l.fs].height
        fy2 == f.y + FontSymbols[f.fs].height
    IN  (f.y >= l.y /\ f.y <= ly2) \/ (fy2 >= l.y /\ fy2 <= ly2)

biggerThan_qualityFirst(l, other, maxSize2) ==
    IF l.g - other.g # 0 THEN l.g - other.g > 0 ELSE other.size < l.size

biggerThan_sizeOnly(l, other, maxSize2) == other.size < l.size

biggerThan(l, other, maxSize2) ==
    IF abs(abs(l.size) - abs(other.size)) >= maxSize2
    THEN other.size < l.size
    ELSE LET diff == l.g - other.g
         IN  IF diff # 0 THEN diff > 0 ELSE other.size < l.size

comesAfter_yOnly(l, f) == l.y - f.y < 0

comesAfter(l, f) ==
    LET r1 == IF ~yCross(l, f) THEN l.y - f.y ELSE 0
        r2 == IF r1 = 0 THEN l.x - f.x ELSE r1
        r3 == IF r2 = 0 THEN l.y - f.y ELSE r2
    IN  r3 < 0

-----------------------------------------------------------------------------
(* sort.Slice on a slice of at most 12 elements is an insertion sort:      *)
(*   for i := 1; i < n; i++ { for j := i; j > 0 && less(j, j-1); j-- {     *)
(*       swap(j, j-1) } }                                                  *)
(* less is called on the elements currently at the two indices.            *)

swap(s, i, j) == [s EXCEPT ![i] = s[j], ![j] = s[i]]

\* less is the set of the pairs <<a, b>> of elements on which the less
\* function answers true
sortSlice(list, less) ==
    LET RECURSIVE sink(_, _)
        \* the inner loop, j counted from 1
        sink(s, j) == IF j > 1 /\ <<s[j], s[j - 1]>> \in less
                      THEN sink(swap(s, j, j - 1), j - 1)
                      ELSE s
        RECURSIVE pass(_, _)
        pass(s, i) == IF i > Len(s) THEN s ELSE pass(sink(s, i), i + 1)
    IN  pass(list, 2)

\* The elements of a list
Range(list) == {list[i] : i \in DOMAIN list}

-----------------------------------------------------------------------------
(* OCR.filterAndArrange.  A slice is [arr, len]: its backing array and its *)
(* length; indices are the code's (from 0), At reads one.                  *)

At(s, i) == s.arr[i + 1]

Slice(list) == [arr |-> list, len |-> Len(list)]

Elems(s) == SubSeq(s.arr, 1, s.len)

RECURSIVE maxSizeOf(_, _)
maxSizeOf(list, m) ==
    IF list = <<>> THEN m ELSE maxSizeOf(Tail(list), max(m, FontSymbols[Head(list).fs].size))

\* biggerFirst: the half of the largest ink size, which the closure captures
biggerFirst(list) == maxSizeOf(list, 0) \div 2

deleteSymbol_keepLen(s, i) ==
    [arr |-> [p \in 1..Len(s.arr) |->
                IF p < i + 1 \/ p > s.len THEN s.arr[p]
                ELSE IF p < s.len THEN s.arr[p + 1] ELSE NIL],
     len |-> s.len]

deleteSymbol(s, i) ==
    [arr |-> [p \in 1..Len(s.arr) |->
                IF p < i + 1 \/ p > s.len THEN s.arr[p]      \* untouched
                ELSE IF p < s.len THEN s.arr[p + 1]          \* copy(all[i:], all[i+1:])
                ELSE NIL],                                   \* all[len(all)-1] = nil
     len |-> s.len - 1]                                      \* all[:len(all)-1]

afterDelete_skip(j) == j + 1

\* j-- after a removal, then the loop's j++
afterDelete(j) == (j - 1) + 1

\* The inner loop of the suppression, from index j on, for the candidate kk.
\* fault: cross was called with a nil receiver or argument (a nil dereference).
RECURSIVE suppressFrom(_, _, _)
suppressFrom(s, kk, j) ==
    IF ~(j < s.len) THEN [s |-> s, fault |-> FALSE]
    ELSE LET jj == At(s, j)
         IN  IF kk = NIL \/ jj = NIL THEN [s |-> s, fault |-> TRUE]
             ELSE IF cross(kk, jj)
                  THEN suppressFrom(deleteSymbol(s, j), kk, afterDelete(j))
                  ELSE suppressFrom(s, kk, j + 1)

\* The outer loop: k ranges over the length n the slice had when the loop
\* started, and kk is read from the backing array at each iteration.
RECURSIVE suppress(_, _, _)
suppress(s, k, n) ==
    IF k >= n THEN [s |-> s, fault |-> FALSE]
    ELSE LET r == suppressFrom(s, At(s, k), k + 1)
         IN  IF r.fault THEN r ELSE suppress(r.s, k + 1, n)

writes_noNewline(s, i, x, previousAdvance) ==
    LET maxCurrentPreviousAdvance == max(previousAdvance, Advance(s.fs))
    IN  (IF s.x - x >= maxCurrentPreviousAdvance /\ i # 0 THEN <<" ">> ELSE <<>>)
        \o <<FontSymbols[s.fs].symbol>>

\* What one iteration of the synthesis loop writes to the builder
writes(s, i, x, previousAdvance) ==
    LET maxCurrentPreviousAdvance == max(previousAdvance, Advance(s.fs))
    IN  (IF s.x - x >= maxCurrentPreviousAdvance /\ i # 0 THEN <<" ">> ELSE <<>>)
        \o (IF s.x < x THEN <<"\n">> ELSE <<>>)
        \o <<FontSymbols[s.fs].symbol>>

RECURSIVE synthesize(_, _, _, _, _)
synthesize(list, i, x, previousAdvance, out) ==
    IF i >= Len(list) THEN out
    ELSE LET s == list[i + 1]
         IN  synthesize(list, i + 1, s.x + Advance(s.fs), Advance(s.fs),
                        out \o writes(s, i, x, previousAdvance))

\* strings.Builder.String(): the pieces written, concatenated
RECURSIVE String(_)
String(pieces) == IF pieces = <<>> THEN "" ELSE Head(pieces) \o String(Tail(pieces))

\* The candidates in priority order (the first sort)
prioritized(list) ==
    LET maxSize2 == biggerFirst(list)
    IN  sortSlice(list, {p \in Range(list) \X Range(list) :
                            biggerThan(p[1], p[2], maxSize2)})

\* The outcome of filterAndArrange(list): panic is a nil dereference in the
\* suppression loop or the index all[0] out of range.
filterAndArrange(list) ==
    LET sup == suppress(Slice(prioritized(list)), 0, Len(list))
        kept == Elems(sup.s)
        arranged == sortSlice(kept, {p \in Range(kept) \X Range(kept) :
                                        comesAfter(p[1], p[2])})
        pieces == synthesize(arranged, 0, arranged[1].x, 0, <<>>)
    IN  IF sup.fault \/ arranged = <<>>
        THEN [panic |-> TRUE, all |-> Elems(sup.s), str |-> <<>>, text |-> ""]
        ELSE [panic |-> FALSE, all |-> arranged, str |-> pieces, text |-> String(pieces)]


-----------------------------------------------------------------------------
(* The scanner.  An image is modelled by what the scan finds in it: bad    *)
(* (region extraction or scoring fails) and hits, the places (x, y) at     *)
(* which template fs scores g.                                             *)

\* SeqsUpTo(S, lo, hi): the sequences over S of length lo..hi
SeqsUpTo(S, lo, hi) == UNION {[1..n -> S] : n \in lo..hi}

\* Candidates as a scan creates them: distinct objects, told apart by id
WithIds(list) == [i \in 1..Len(list) |-> [list[i] EXCEPT !.id = i]]

Perms(list) ==
    {[i \in 1..Len(list) |-> list[p[i]]] : p \in Permutations(1..Len(list))}

MainTemplates == {1, 2}
MainXs == {0, 6}
MainYs == {0}
Qualities == {1, 2}
Thresholds == {2}
FamilyNames == {"f1", "f2"}

\* An image scores every template at every position
Images ==
    {[bad |-> TRUE, hits |-> {}]} \cup
    {[bad |-> FALSE,
      hits |-> {[fs |-> p[1], x |-> p[2], y |-> p[3], g |-> score[p]] : p \in DOMAIN score}] :
        score \in [MainTemplates \X MainXs \X MainYs -> Qualities]}

\* The hits of a set in raster order: row by row, left to right
RECURSIVE rasterOrder(_)
rasterOrder(S) ==
    IF S = {} THEN <<>>
    ELSE LET m == CHOOSE a \in S :
                    \A b \in S \ {a} : a.y < b.y \/ (a.y = b.y /\ a.x < b.x)
         IN  <<m>> \o rasterOrder(S \ {m})

\* The matches of the i-th template of the pool, fs: one candidate per position
\* that scores at least the threshold t
matchesOf(i, fs, image, t) ==
    LET here == {h \in image.hits : h.fs = fs /\ h.g >= t}
        ordered == rasterOrder(here)
    IN  [j \in 1..Len(ordered) |->
            newFontSymbolLookup(<<i, j>>, fs, ordered[j].x, ordered[j].y, ordered[j].g)]

\* What one worker finds: worker w of n scans the templates w, w+n, w+2n, ...
RECURSIVE scanPart(_, _, _, _, _)
scanPart(symbols, i, n, image, t) ==
    IF i > Len(symbols) THEN <<>>
    ELSE matchesOf(i, symbols[i], image, t) \o scanPart(symbols, i + n, n, image, t)

RECURSIVE concat(_, _, _)
concat(parts, order, w) ==
    IF w > Len(parts) THEN <<>> ELSE parts[order[w]] \o concat(parts, order, w + 1)

\* findAllInParallel: the outcomes the scan can have.  The workers' partial
\* lists are concatenated in an order that is not fixed; one worker scans
\* the templates in the pool's order.
findAllInParallel(numWorkers, symbols, image, t) ==
    IF image.bad THEN {[found |-> <<>>, err |-> "scan failed"]}
    ELSE LET parts == [w \in 1..numWorkers |-> scanPart(symbols, w, numWorkers, image, t)]
         IN  {[found |-> concat(parts, order, 1), err |-> "nil"] :
                order \in Permutations(1..numWorkers)}

-----------------------------------------------------------------------------
(* The OCR object *)

Outcome(fa) ==
    [all |-> fa.all, str |-> fa.str, text |-> fa.text, err |-> "nil",
     status |-> IF fa.panic THEN "panic" ELSE "returned"]

recognize_noEmptyCheck(r) ==
    IF r.err # "nil"
    THEN [all |-> <<>>, str |-> <<>>, text |-> "", err |-> r.err, status |-> "returned"]
    ELSE Outcome(filterAndArrange(r.found))

\* OCR.recognize, given what findAllInParallel returned
recognize(r) ==
    IF r.err # "nil"
    THEN [all |-> <<>>, str |-> <<>>, text |-> "", err |-> r.err, status |-> "returned"]
    ELSE IF Len(r.found) = 0
    THEN [all |-> <<>>, str |-> <<>>, text |-> "", err |-> "nil", status |-> "returned"]
    ELSE Outcome(filterAndArrange(r.found))

\* NewOCR(threshold, numThreads...)
NewOCR(t, n) ==
    /\ fontFamilies = [name \in FamilyNames |-> <<>>]
    /\ allSymbols = <<>>
    /\ threshold = t
    /\ numThreads = n

\* No result of a recognition is at hand
Idle ==
    /\ found = <<>>
    /\ all = <<>>
    /\ str = <<>>
    /\ text = ""
    /\ err = "nil"
    /\ status = "idle"
    /\ rel = {}

\* The call that returns leaves no result of a recognition at hand
Forget ==
    /\ found' = <<>>
    /\ all' = <<>>
    /\ str' = <<>>
    /\ text' = ""
    /\ err' = "nil"
    /\ status' = "idle"
    /\ rel' = {}

Init ==
    /\ \E t \in Thresholds, n \in 1..MaxWorkers : NewOCR(t, n)
    /\ Idle

AddSymbols(symbols) ==
    /\ status # "panic"
    /\ Len(allSymbols) + Len(symbols) <= MaxPool
    /\ allSymbols' = allSymbols \o symbols
    /\ Forget
    /\ UNCHANGED <<fontFamilies, threshold, numThreads>>

AddFontFamily_familyOnly(name, symbols) ==
    /\ status # "panic"
    /\ Len(allSymbols) + Len(symbols) <= MaxPool
    /\ fontFamilies' = [fontFamilies EXCEPT ![name] = fontFamilies[name] \o symbols]
    /\ Forget
    /\ UNCHANGED <<allSymbols, threshold, numThreads>>

AddFontFamily(name, symbols) ==
    /\ status # "panic"
    /\ Len(allSymbols) + Len(symbols) <= MaxPool
    /\ fontFamilies' = [fontFamilies EXCEPT ![name] = fontFamilies[name] \o symbols]
    /\ allSymbols' = allSymbols \o symbols
    /\ Forget
    /\ UNCHANGED <<threshold, numThreads>>

Recognize(image) ==
    /\ status # "panic"
    /\ \E r \in findAllInParallel(numThreads, allSymbols, image, threshold) :
         \E out \in {recognize(r)} :
             /\ found' = r.found
             /\ all' = out.all
             /\ str' = out.str
             /\ text' = out.text
             /\ err' = out.err
             /\ status' = out.status
    /\ UNCHANGED <<fontFamilies, allSymbols, threshold, numThreads, rel>>

Next ==
    \/ \E name \in FamilyNames, symbols \in SeqsUpTo(MainTemplates, 0, MaxArgs) :
         AddFontFamily(name, symbols)
    \/ \E symbols \in SeqsUpTo(MainTemplates, 0, MaxArgs) : AddSymbols(symbols)
    \/ \E image \in Images : Recognize(image)

Spec == Init /\ [][Next]_vars


-----------------------------------------------------------------------------
(* OCR.filterAndArrange as a function of its argument: the candidate list  *)
(* is drawn from a bounded set, and one action applies the function.       *)

NewCandidates(templates, xs, ys, gs) ==
    {newFontSymbolLookup(0, fs, x, y, g) : fs \in templates, x \in xs, y \in ys, g \in gs}

\* Candidates of several ink sizes and qualities; boxes at 0 and 3, and at 3
\* and 6, intersect, boxes at 0 and 6 do not
ResolveCandidates == NewCandidates({1, 2, 4, 5}, {0, 3, 6}, {0}, Qualities)

\* Candidates of one ink size and quality on two lines
ArrangeCandidates == NewCandidates({1, 2, 3}, {0, 5, 10, 25}, {0, 20}, {2})

\* Candidates of two heights on lines that touch or nest
OrderCandidates == NewCandidates({1, 6}, {0, 10, 20}, {0, 10, 20}, {2})

FreshOCR ==
    /\ NewOCR(1, 1)
    /\ all = <<>>
    /\ str = <<>>
    /\ text = ""
    /\ err = "nil"
    /\ status = "idle"
    /\ rel = {}

FilterAndArrange ==
    /\ status = "idle"
    /\ found # <<>>
    /\ \E out \in {Outcome(filterAndArrange(found))} :
         /\ all' = out.all
         /\ str' = out.str
         /\ text' = out.text
         /\ err' = out.err
         /\ status' = out.status
    /\ UNCHANGED <<fontFamilies, allSymbols, threshold, numThreads, found, rel>>

InitResolve ==
    /\ FreshOCR
    /\ found \in {WithIds(l) : l \in SeqsUpTo(ResolveCandidates, 1, MaxResolve)}

SpecResolve == InitResolve /\ [][FilterAndArrange]_vars

InitArrange ==
    /\ FreshOCR
    /\ found \in {WithIds(l) : l \in SeqsUpTo(ArrangeCandidates, 1, MaxArrange)}

SpecArrange == InitArrange /\ [][FilterAndArrange]_vars

\* The candidates of a list do not intersect one another
Apart(list) ==
    \A i, j \in 1..Len(list) :
        i # j => ~(/\ list[i].x < list[j].x + FontSymbols[list[j].fs].width
                   /\ list[j].x < list[i].x + FontSymbols[list[i].fs].width
                   /\ list[i].y < list[j].y + FontSymbols[list[j].fs].height
                   /\ list[j].y < list[i].y + FontSymbols[list[i].fs].height)

\* The reading-order comparator applied to every pair of a list of candidates
\* that do not intersect
Compare ==
    /\ status = "idle"
    /\ rel' = {p \in (1..Len(found)) \X (1..Len(found)) :
                 comesAfter(found[p[1]], found[p[2]])}
    /\ status' = "returned"
    /\ UNCHANGED <<fontFamilies, allSymbols, threshold, numThreads, found, all, str,
                   text, err>>

InitOrder ==
    /\ FreshOCR
    /\ found \in {l \in {WithIds(m) : m \in SeqsUpTo(OrderCandidates, 2, MaxOrder)} :
                    Apart(l)}

SpecOrder == InitOrder /\ [][Compare]_vars


-----------------------------------------------------------------------------
(* Vocabulary of the properties *)

\* Two bounding boxes [x, x+width) x [y, y+height) have a point in common
Overlap(a, b) ==
    /\ a.x < b.x + FontSymbols[b.fs].width
    /\ b.x < a.x + FontSymbols[a.fs].width
    /\ a.y < b.y + FontSymbols[b.fs].height
    /\ b.y < a.y + FontSymbols[a.fs].height

\* Candidate c is in the slice filterAndArrange ended with
Kept(c) == \E k \in DOMAIN all : all[k].id = c.id

Label(c) == FontSymbols[c.fs].symbol

Count(seq, t) == Cardinality({i \in DOMAIN seq : seq[i] = t})

\* How often template t occurs in the families, all together
FamilyCount(t) ==
    Cardinality({p \in UNION {{n} \X DOMAIN fontFamilies[n] : n \in FamilyNames} :
                    fontFamilies[p[1]][p[2]] = t})

\* The half of the largest ink size of the candidate list
HalfMax ==
    LET sizes == {found[i].size : i \in DOMAIN found}
    IN  (CHOOSE m \in sizes : \A n \in sizes : n <= m) \div 2

SizeGap(i, j) ==
    IF found[i].size >= found[j].size THEN found[i].size - found[j].size
    ELSE found[j].size - found[i].size

Returned == status = "returned" /\ err = "nil"

-----------------------------------------------------------------------------
(* C1: the text does not depend on the order in which the same candidates  *)
(* are concatenated: every permutation of the candidate list that was      *)
(* recognized yields the text that was returned.                           *)
C1_OrderIndependent ==
    (Returned /\ found # <<>>) =>
        \A p \in Perms(found) : filterAndArrange(p).text = text

(* C2: when the scan returns an empty list without error, as it does for   *)
(* an empty pool, recognize returns "" and nil, and filterAndArrange is    *)
(* not entered with an empty list (which would panic at all[0]).           *)
C2_EmptyIsEmptyString ==
    /\ status # "panic"
    /\ Returned =>
        /\ allSymbols = <<>> => found = <<>>
        /\ found = <<>> => (text = "" /\ str = <<>> /\ all = <<>>)

C2_Witness ==
    Returned /\ allSymbols # <<>> /\ found = <<>> /\ text = "" /\ threshold = 2

(* C3 as stated: a template that is in a family is in allSymbols exactly   *)
(* once.                                                                   *)
C3_ExactlyOnce ==
    \A t \in MainTemplates : FamilyCount(t) >= 1 => Count(allSymbols, t) = 1

(* C3 as amended: a template that is in a family is in allSymbols at least *)
(* as often as it occurs in the families all together (so at least once).  *)
C3_AtLeastAsOften ==
    \A t \in MainTemplates :
        /\ Count(allSymbols, t) >= FamilyCount(t)
        /\ FamilyCount(t) >= 1 => Count(allSymbols, t) >= 1

C3_Witness ==
    \E t \in MainTemplates :
        /\ Count(fontFamilies["f1"], t) = 1
        /\ Count(fontFamilies["f2"], t) = 1
        /\ Count(allSymbols, t) = 2

\* found[i] and found[j] have the same label and intersect, and found[i] is
\* larger by at least the half of the largest ink size
SizeDominates(i, j) ==
    /\ i # j
    /\ Label(found[i]) = Label(found[j])
    /\ Overlap(found[i], found[j])
    /\ found[i].size > found[j].size
    /\ SizeGap(i, j) >= HalfMax

(* C4 as stated: of two intersecting candidates with the same label, the   *)
(* one larger by at least halfMax is kept, whatever the qualities.         *)
C4_LargerKept ==
    Returned =>
        \A i, j \in DOMAIN found : SizeDominates(i, j) => Kept(found[i])

(* C4 as amended: in a candidate list that consists of the two candidates, *)
(* the larger one is kept and the smaller one removed, whatever the        *)
(* qualities.                                                              *)
C4_LargerKeptOfTwo ==
    (Returned /\ Len(found) = 2) =>
        \A i, j \in DOMAIN found :
            SizeDominates(i, j) => (Kept(found[i]) /\ ~Kept(found[j]))

C4_Witness ==
    /\ Returned
    /\ Len(found) = 2
    /\ SizeDominates(2, 1)
    /\ found[2].g < found[1].g
    /\ Kept(found[2])
    /\ ~Kept(found[1])

\* found[i] and found[j] intersect, their sizes are comparable (closer than
\* the half of the largest ink size) and found[i] has the higher quality
QualityDominates(i, j) ==
    /\ i # j
    /\ Overlap(found[i], found[j])
    /\ SizeGap(i, j) < HalfMax
    /\ found[i].g > found[j].g

(* C5 as stated: of two intersecting candidates of comparable sizes, the   *)
(* one of strictly higher quality is kept.                                 *)
C5_BetterKept ==
    Returned =>
        \A i, j \in DOMAIN found : QualityDominates(i, j) => Kept(found[i])

(* C5 as amended: in a candidate list that consists of the two candidates, *)
(* the one of strictly higher quality is kept and the other removed, also  *)
(* when the kept one is the smaller.                                       *)
C5_BetterKeptOfTwo ==
    (Returned /\ Len(found) = 2) =>
        \A i, j \in DOMAIN found :
            QualityDominates(i, j) => (Kept(found[i]) /\ ~Kept(found[j]))

C5_Witness ==
    /\ Returned
    /\ Len(found) = 2
    /\ QualityDominates(2, 1)
    /\ found[2].size < found[1].size
    /\ Kept(found[2])
    /\ ~Kept(found[1])


\* The candidate list is A at (0, y) and B at (bx, y), in either order, each
\* with advance 10, and both are kept
PairOnLine(bx) ==
    /\ Returned
    /\ Len(found) = 2
    /\ Len(all) = 2
    /\ \E i, j \in DOMAIN found :
         /\ Label(found[i]) = "A" /\ found[i].x = 0
         /\ Label(found[j]) = "B" /\ found[j].x = bx
         /\ found[i].y = found[j].y
         /\ Advance(found[i].fs) = 10 /\ Advance(found[j].fs) = 10

(* C6 as stated: A at x = 0 and B on the same line, each with advance 10,  *)
(* give "A B" when B is at x = 25 and "AB" when B is at x = 5.             *)
C6_SpaceOrNothing ==
    /\ PairOnLine(25) => text = "A B"
    /\ PairOnLine(5) => text = "AB"

(* C6 as amended: they give "A B" when B is at x = 25; when B is at x = 5, *)
(* left of the cursor 0 + 10, they give "A\nB" (a newline and no space);   *)
(* "AB" is what B at x = 10 gives.                                         *)
C6_SpaceOrNewline ==
    /\ PairOnLine(25) => text = "A B"
    /\ PairOnLine(5) => text = "A\nB"
    /\ PairOnLine(10) => text = "AB"

C6_Witness == PairOnLine(5) /\ Label(found[1]) = "B" /\ text = "A\nB"

\* a and b are on the same line: their vertical spans cross
SameLine(a, b) == yCross(a, b) /\ yCross(b, a)

\* The indices of the upper line: the candidates on the line of a topmost one
Upper ==
    LET top == CHOOSE i \in DOMAIN found : \A j \in DOMAIN found : found[i].y <= found[j].y
    IN  {i \in DOMAIN found : SameLine(found[i], found[top])}

Lower == DOMAIN found \ Upper

\* The candidates do not intersect and form two lines whose spans do not cross
TwoLines ==
    /\ \A i, j \in DOMAIN found : i # j => ~Overlap(found[i], found[j])
    /\ Lower # {}
    /\ \A i, j \in Upper : SameLine(found[i], found[j])
    /\ \A i, j \in Lower : SameLine(found[i], found[j])
    /\ \A i \in Upper, j \in Lower :
         /\ ~yCross(found[i], found[j])
         /\ ~yCross(found[j], found[i])
         /\ found[i].y < found[j].y

\* The places of the labels among the pieces written
LabelPlaces == {p \in DOMAIN str : str[p] \notin {" ", "\n"}}

\* The place of the k-th label
PlaceOf(k) ==
    CHOOSE p \in LabelPlaces : Cardinality({q \in LabelPlaces : q <= p}) = k

(* C7: candidates that do not intersect and form two lines: the labels of  *)
(* the upper line are emitted before those of the lower line, each line in *)
(* ascending x, with a newline before the first label of the lower line    *)
(* exactly when its x is less than the cursor at the end of the upper      *)
(* line; A (0,0), B (10,0), C (0,20) give "AB\nC".                         *)
C7_ReadingOrder ==
    (Returned /\ TwoLines) =>
        LET n == Cardinality(Upper)
            first == all[n + 1]
            cursorX == all[n].x + Advance(all[n].fs)
        IN  /\ Len(all) = Len(found)
            /\ \A k \in DOMAIN all : \E i \in DOMAIN found :
                 /\ all[k].id = found[i].id
                 /\ (k <= n) <=> (i \in Upper)
            /\ \A k \in 1..(Len(all) - 1) : k # n => all[k].x <= all[k + 1].x
            /\ Cardinality(LabelPlaces) = Len(all)
            /\ \A k \in DOMAIN all : str[PlaceOf(k)] = Label(all[k])
            /\ (str[PlaceOf(n + 1) - 1] = "\n") <=> (first.x < cursorX)
            /\ ( /\ Len(found) = 3
                 /\ \E i, j, k \in DOMAIN found :
                      /\ Label(found[i]) = "A" /\ found[i].x = 0 /\ found[i].y = 0
                      /\ Label(found[j]) = "B" /\ found[j].x = 10 /\ found[j].y = 0
                      /\ Label(found[k]) = "C" /\ found[k].x = 0 /\ found[k].y = 20 )
               => text = "AB\nC"

C7_Witness ==
    /\ Returned
    /\ TwoLines
    /\ Len(found) = 3
    /\ Label(found[1]) = "C" /\ found[1].x = 0 /\ found[1].y = 20
    /\ Label(found[2]) = "B" /\ found[2].x = 10 /\ found[2].y = 0
    /\ Label(found[3]) = "A" /\ found[3].x = 0 /\ found[3].y = 0
    /\ text = "AB\nC"

(* C8: after the suppression no two candidates that are kept intersect,    *)
(* and every candidate that was removed intersects one that is kept.       *)
C8_OneWinner ==
    Returned =>
        /\ \A k, m \in DOMAIN all : k # m => (all[k].id # all[m].id /\ ~Overlap(all[k], all[m]))
        /\ \A k \in DOMAIN all : \E i \in DOMAIN found : found[i] = all[k]
        /\ \A i \in DOMAIN found :
             ~Kept(found[i]) => \E k \in DOMAIN all : Overlap(found[i], all[k])

C8_Witness ==
    /\ Returned
    /\ Len(found) = 3
    /\ Len(all) = 2
    /\ \E i \in DOMAIN found :
         /\ ~Kept(found[i])
         /\ \A k \in DOMAIN all : Overlap(found[i], all[k])

(* C9: over candidates that do not intersect, comesAfter is a strict total *)
(* order (irreflexive, asymmetric, transitive, and one of a.comesAfter(b), *)
(* b.comesAfter(a) holds of any two distinct candidates), and yCross       *)
(* answers the same for (a, b) and (b, a).                                 *)
C9_StrictTotalOrder ==
    status = "returned" =>
        \A i, j \in DOMAIN found :
            /\ <<i, i>> \notin rel
            /\ ~(<<i, j>> \in rel /\ <<j, i>> \in rel)
            /\ i # j => (<<i, j>> \in rel \/ <<j, i>> \in rel)
            /\ \A k \in DOMAIN found :
                 (<<i, j>> \in rel /\ <<j, k>> \in rel) => <<i, k>> \in rel
            /\ yCross(found[i], found[j]) = yCross(found[j], found[i])

(* C10: the suppression loop never calls cross on a nil slot, and the      *)
(* first candidate in priority order is never removed, so that the slice   *)
(* is not empty at all[0].                                                 *)
C10_NoNilNoEmpty ==
    /\ status # "panic"
    /\ Returned =>
         /\ Len(all) >= 1
         /\ Kept(prioritized(found)[1])
         /\ ~suppress(Slice(prioritized(found)), 0, Len(found)).fault

C10_Witness ==
    /\ Returned
    /\ Len(found) = 3
    /\ Len(all) = 1
    /\ suppress(Slice(prioritized(found)), 0, Len(found)).s.arr
         = <<all[1], NIL, NIL>>


=============================================================================
